---- MODULE Spec2Model ----
(***************************************************************************)
(* Options-Payoff-Lab: the path-dependent payoffs of core/exotic.py        *)
(* (AsianOption, BarrierOption, LookBackOption) and the evaluation loop of *)
(* main.py (payoff, then calculate_pnl, inside a try/except).              *)
(*                                                                         *)
(* Numbers.  A payoff is a real number; it is kept exactly, as             *)
(*     sgn * (x1 * ... * xn)^(1/n) + num/den                               *)
(* (sgn in {-1,0,1}, rad = <<x1..xn>> positive integers, num/den a reduced *)
(* fraction), which is closed under everything the payoffs do: means,      *)
(* differences with a strike or a premium, and maximum(0, .).  The two     *)
(* IEEE special values the code can produce, -inf (log of 0) and NaN (log  *)
(* of a negative number), are modelled; the rounding of binary64 is not.   *)
(* Sign tests compare products of integers, computed on digit sequences so *)
(* that a ten-observation path does not leave TLC's integer range.         *)
(***************************************************************************)
EXTENDS Integers, Sequences, FiniteSets, TLC

VARIABLES args, opt, path, pc, payoff_brut, pnl_net, err

vars == <<args, opt, path, pc, payoff_brut, pnl_net, err>>

(***************************** bounds ************************************)
MaxLen == 3
MaxPrice == 3
MaxPremium == 1

(************************* Python / numpy values **************************)
None == [kind |-> "None"]
Absent == [kind |-> "absent"]
NaN == [kind |-> "nan"]
NegInf == [kind |-> "-inf"]

Abs(n) == IF n < 0 THEN 0 - n ELSE n

RECURSIVE GCD(_, _)
GCD(a, b) == IF b = 0 THEN a ELSE GCD(b, a % b)

\* sgn * (product of rad)^(1/Len(rad)) + num/den, the fraction reduced, den > 0
Num(sgn, rad, num, den) ==
    LET g == GCD(Abs(num), den)
    IN  [kind |-> "num", sgn |-> sgn, rad |-> rad, num |-> num \div g, den |-> den \div g]

Rat(num, den) == Num(0, <<>>, num, den)
IntVal(n) == Rat(n, 1)
Float0 == IntVal(0)

Neg(v) == Num(0 - v.sgn, v.rad, 0 - v.num, v.den)

\* v + w, for operands of which at most one carries a root
Add(v, w) ==
    Num(v.sgn + w.sgn, v.rad \o w.rad, v.num * w.den + w.num * v.den, v.den * w.den)

Sub(v, w) == Add(v, Neg(w))

(*********************** exact comparison of products *********************)
\* little-endian digits in base 10000; <<>> is zero
RECURSIVE MulCarry(_, _, _)
MulCarry(b, k, carry) ==
    IF b = <<>>
    THEN IF carry = 0 THEN <<>> ELSE <<carry % 10000>> \o MulCarry(<<>>, k, carry \div 10000)
    ELSE LET t == Head(b) * k + carry
         IN  <<t % 10000>> \o MulCarry(Tail(b), k, t \div 10000)

BigMul(b, k) == IF k = 0 THEN <<>> ELSE MulCarry(b, k, 0)

RECURSIVE BigProd(_)
BigProd(s) == IF s = <<>> THEN <<1>> ELSE BigMul(BigProd(Tail(s)), Head(s))

RECURSIVE CmpFrom(_, _, _)
CmpFrom(a, b, i) ==
    IF i = 0 THEN 0
    ELSE IF a[i] > b[i] THEN 1
    ELSE IF a[i] < b[i] THEN 0 - 1
    ELSE CmpFrom(a, b, i - 1)

BigCmp(a, b) ==
    IF Len(a) > Len(b) THEN 1
    ELSE IF Len(a) < Len(b) THEN 0 - 1
    ELSE CmpFrom(a, b, Len(a))

Power(x, n) == [i \in 1..n |-> x]

\* -1, 0 or 1: the sign of the number v stands for
Sign(v) ==
    LET n == Len(v.rad)
        root == BigProd(v.rad \o Power(v.den, n))   \* (root * den)^n
        frac == BigProd(Power(Abs(v.num), n))       \* |num|^n
    IN  IF v.sgn = 0 THEN (IF v.num > 0 THEN 1 ELSE IF v.num < 0 THEN 0 - 1 ELSE 0)
        ELSE IF v.sgn = 1
             THEN IF v.num >= 0 THEN 1 ELSE BigCmp(root, frac)
             ELSE IF v.num <= 0 THEN 0 - 1 ELSE BigCmp(frac, root)


Return(v) == [tag |-> "return", value |-> v]
Raise(e) == [tag |-> "raise", exc |-> e]

\* Python's a - b on None, on floats (NaN propagates) and on numbers
PySub(a, b) ==
    IF a = None \/ b = None THEN Raise("TypeError")
    ELSE IF a = NaN \/ b = NaN THEN Return(NaN)
    ELSE Return(Sub(a, b))

\* np.maximum(0, x): NaN propagates
np_maximum0(x) == IF x = NaN THEN NaN ELSE IF Sign(x) >= 0 THEN x ELSE Float0

RECURSIVE np_max(_)
np_max(spot) ==
    IF Len(spot) = 1 THEN spot[1]
    ELSE LET m == np_max(Tail(spot)) IN IF spot[1] > m THEN spot[1] ELSE m

RECURSIVE np_min(_)
np_min(spot) ==
    IF Len(spot) = 1 THEN spot[1]
    ELSE LET m == np_min(Tail(spot)) IN IF spot[1] < m THEN spot[1] ELSE m

RECURSIVE np_sum(_)
np_sum(spot) == IF spot = <<>> THEN 0 ELSE spot[1] + np_sum(Tail(spot))

\* np.mean of an integer path
np_mean(spot) == Rat(np_sum(spot), Len(spot))

\* np.log, elementwise: log(0) is -inf and log(x < 0) is nan, a RuntimeWarning each, no exception
np_log(spot) ==
    [i \in 1..Len(spot) |->
        IF spot[i] > 0 THEN [kind |-> "log", of |-> spot[i]]
        ELSE IF spot[i] = 0 THEN NegInf ELSE NaN]

\* np.mean of the logs: nan if any is nan, else -inf if any is -inf, else the log of the geometric mean
np_mean_log(logs) ==
    IF \E i \in 1..Len(logs) : logs[i] = NaN THEN NaN
    ELSE IF \E i \in 1..Len(logs) : logs[i] = NegInf THEN NegInf
    ELSE [kind |-> "meanlog", of |-> [i \in 1..Len(logs) |-> logs[i].of]]

\* np.exp: exp(nan) = nan, exp(-inf) = 0.0
np_exp(x) ==
    IF x = NaN THEN NaN
    ELSE IF x = NegInf THEN Float0
    ELSE Num(1, x.of, 0, 1)

last(spot) == spot[Len(spot)]

(****************************** base.Option ******************************)
Option_init(strike, expiry, premium) == [K |-> strike, T |-> expiry, premium |-> premium]

(****************************** AsianOption ******************************)
DefaultPremium == Float0

AsianOption(strike, expiry, premium, is_call, average_type) ==
    LET base == Option_init(strike, expiry, premium)
    IN  [cls |-> "AsianOption", K |-> base.K, T |-> base.T, premium |-> base.premium,
         is_call |-> is_call, average_type |-> average_type]

Unbound == [kind |-> "unbound"]

moyenne_swapped(self, spot) ==
    IF self.average_type = "arithmetic" THEN np_exp(np_mean_log(np_log(spot)))
    ELSE IF self.average_type = "geometric" THEN np_mean(spot)
    ELSE Unbound

np_mean_suffix(spot) == IF Len(spot) > 1 THEN np_mean(Tail(spot)) ELSE np_mean(spot)

moyenne_suffix(self, spot) ==
    IF self.average_type = "arithmetic" THEN np_mean_suffix(spot)
    ELSE IF self.average_type = "geometric" THEN np_exp(np_mean_log(np_log(spot)))
    ELSE Unbound

\* the local variable moyenne after lines 28-31
moyenne(self, spot) ==
    IF self.average_type = "arithmetic" THEN np_mean(spot)
    ELSE IF self.average_type = "geometric" THEN np_exp(np_mean_log(np_log(spot)))
    ELSE Unbound

AsianOption_payoff(self, spot) ==
    LET m == moyenne(self, spot)
    IN  IF m = Unbound THEN Raise("UnboundLocalError")
        ELSE LET d == IF self.is_call THEN PySub(m, self.K) ELSE PySub(self.K, m)
             IN  IF d.tag = "raise" THEN d ELSE Return(np_maximum0(d.value))

(***************************** BarrierOption *****************************)
BarrierOption_premium_mixup(strike, expiry, barrier, premium, is_call, is_knock_in, is_up) ==
    LET base == Option_init(strike, expiry, IntVal(barrier))
    IN  [cls |-> "BarrierOption", K |-> base.K, T |-> base.T, premium |-> base.premium,
         is_call |-> is_call, barrier |-> barrier, is_knock_in |-> is_knock_in,
         is_up |-> is_up]

BarrierOption(strike, expiry, barrier, premium, is_call, is_knock_in, is_up) ==
    LET base == Option_init(strike, expiry, premium)
    IN  [cls |-> "BarrierOption", K |-> base.K, T |-> base.T, premium |-> base.premium,
         is_call |-> is_call, barrier |-> barrier, is_knock_in |-> is_knock_in,
         is_up |-> is_up]

has_hit_barrier_strict(self, spot) ==
    IF self.is_up THEN np_max(spot) > self.barrier ELSE np_min(spot) < self.barrier

has_hit_barrier(self, spot) ==
    IF self.is_up THEN np_max(spot) >= self.barrier ELSE np_min(spot) <= self.barrier

is_active_always_hit(self, spot) == has_hit_barrier(self, spot)

is_active(self, spot) ==
    IF self.is_knock_in THEN has_hit_barrier(self, spot) ELSE ~has_hit_barrier(self, spot)

BarrierOption_payoff(self, spot) ==
    IF is_active(self, spot)
    THEN LET d == IF self.is_call THEN PySub(IntVal(last(spot)), self.K)
                  ELSE PySub(self.K, IntVal(last(spot)))
         IN  IF d.tag = "raise" THEN d ELSE Return(np_maximum0(d.value))
    ELSE Return(Float0)

(***************************** LookBackOption ****************************)
LookBackOption(strike, expiry, premium, is_call, type_option) ==
    LET base == Option_init(strike, expiry, premium)
    IN  [cls |-> "LookBackOption", K |-> base.K, T |-> base.T, premium |-> base.premium,
         is_call |-> is_call, type_option |-> type_option]

LookBack_fixe_terminal(self, spot) ==
    LET d == IF self.is_call THEN PySub(IntVal(last(spot)), self.K)
             ELSE PySub(self.K, IntVal(last(spot)))
    IN  IF d.tag = "raise" THEN d ELSE Return(np_maximum0(d.value))

LookBack_fixe(self, spot) ==
    LET d == IF self.is_call THEN PySub(IntVal(np_max(spot)), self.K)
             ELSE PySub(self.K, IntVal(np_min(spot)))
    IN  IF d.tag = "raise" THEN d ELSE Return(np_maximum0(d.value))

LookBack_flottant_wrong_extreme(self, spot) ==
    IF self.is_call THEN Return(IntVal(last(spot) - np_max(spot)))
    ELSE Return(IntVal(np_min(spot) - last(spot)))

LookBack_flottant_reads_strike(self, spot) ==
    IF self.is_call THEN PySub(IntVal(last(spot)), self.K)
    ELSE PySub(self.K, IntVal(last(spot)))

LookBack_flottant(self, spot) ==
    IF self.is_call THEN Return(IntVal(last(spot) - np_min(spot)))
    ELSE Return(IntVal(np_max(spot) - last(spot)))

LookBackOption_payoff_strict(self, spot) ==
    IF self.type_option = "Fixe" THEN LookBack_fixe(self, spot)
    ELSE IF self.type_option = "Flottant" THEN LookBack_flottant(self, spot)
    ELSE Raise("ValueError")

\* neither branch taken: the function falls off its end and returns None
LookBackOption_payoff(self, spot) ==
    IF self.type_option = "Fixe" THEN LookBack_fixe(self, spot)
    ELSE IF self.type_option = "Flottant" THEN LookBack_flottant(self, spot)
    ELSE Return(None)

(************************ dispatch and net result *************************)
payoff(self, spot) ==
    IF self.cls = "AsianOption" THEN AsianOption_payoff(self, spot)
    ELSE IF self.cls = "BarrierOption" THEN BarrierOption_payoff(self, spot)
    ELSE LookBackOption_payoff(self, spot)

calculate_pnl(self, spot) ==
    LET p == payoff(self, spot)
    IN  IF p.tag = "raise" THEN p ELSE PySub(p.value, self.premium)
(****************************** the callers *******************************)
\* main.py: the test path and the common parameters
price_path == <<100, 102, 104, 108, 107, 112, 115, 113, 110, 112>>
K == 105
T == 1
H == 114

OrDefault(arg, dflt) == IF arg = Absent THEN dflt ELSE arg

\* a constructor call: premium may be left out (premium=0.0)
Construct(a) ==
    IF a.cls = "AsianOption"
    THEN AsianOption(a.strike, a.expiry, OrDefault(a.premium, DefaultPremium), a.is_call,
                     a.average_type)
    ELSE IF a.cls = "BarrierOption"
    THEN BarrierOption(a.strike, a.expiry, a.barrier, OrDefault(a.premium, DefaultPremium),
                       a.is_call, a.is_knock_in, a.is_up)
    ELSE LookBackOption(a.strike, a.expiry, OrDefault(a.premium, DefaultPremium), a.is_call,
                        a.type_option)

\* the entries of main's portfolio whose classes core/exotic.py defines
\* (lines 21, 22, 25, 27, 28; is_call left out at line 25 is its default, True)
MainPortfolio ==
    { [cls |-> "AsianOption", strike |-> IntVal(K), expiry |-> T, premium |-> Absent,
       is_call |-> TRUE, average_type |-> "arithmetic"],
      [cls |-> "AsianOption", strike |-> IntVal(K), expiry |-> T, premium |-> Absent,
       is_call |-> TRUE, average_type |-> "geometric"],
      [cls |-> "BarrierOption", strike |-> IntVal(K), expiry |-> T, barrier |-> H,
       premium |-> Absent, is_call |-> TRUE, is_knock_in |-> FALSE, is_up |-> TRUE],
      [cls |-> "LookBackOption", strike |-> IntVal(K), expiry |-> T, premium |-> Absent,
       is_call |-> TRUE, type_option |-> "Fixe"],
      [cls |-> "LookBackOption", strike |-> None, expiry |-> T, premium |-> Absent,
       is_call |-> TRUE, type_option |-> "Flottant"] }

\* any other caller: bounded paths (non-positive observations included) and parameters
Prices == {0 - 1, 0} \cup (1..MaxPrice)
Paths == UNION {[1..n -> Prices] : n \in 1..MaxLen}
Strikes == {IntVal(k) : k \in 1..MaxPrice}
Barriers == 1..MaxPrice
PremiumArgs == {Absent} \cup {IntVal(p) : p \in 1..MaxPremium}
AverageTypes == {"arithmetic", "geometric", "harmonic"}
TypeOptions == {"Fixe", "Flottant", "fixed", "floating"}

AsianArgs ==
    [cls : {"AsianOption"}, strike : Strikes, expiry : {T}, premium : PremiumArgs,
     is_call : BOOLEAN, average_type : AverageTypes]

BarrierArgs ==
    [cls : {"BarrierOption"}, strike : Strikes, expiry : {T}, barrier : Barriers,
     premium : PremiumArgs, is_call : BOOLEAN, is_knock_in : BOOLEAN, is_up : BOOLEAN]

LookBackArgs ==
    [cls : {"LookBackOption"}, strike : Strikes \cup {None}, expiry : {T},
     premium : PremiumArgs, is_call : BOOLEAN, type_option : TypeOptions]

Init ==
    /\ \/ /\ args \in MainPortfolio
          /\ path = price_path
       \/ /\ args \in AsianArgs \cup BarrierArgs \cup LookBackArgs
          /\ path \in Paths
    /\ opt = Construct(args)
    /\ pc = "try"
    /\ payoff_brut = Absent
    /\ pnl_net = Absent
    /\ err = Absent

\* main.py line 52: payoff_brut=option.payoff(price_path)
CallPayoff ==
    /\ pc = "try"
    /\ LET r == payoff(opt, path)
       IN  IF r.tag = "raise"
           THEN /\ pc' = "except"
                /\ err' = r.exc
                /\ UNCHANGED payoff_brut
           ELSE /\ pc' = "payoff"
                /\ payoff_brut' = r.value
                /\ UNCHANGED err
    /\ UNCHANGED <<args, opt, path, pnl_net>>

\* main.py line 53: pnl_net=option.calculate_pnl(price_path)
CallCalculatePnl ==
    /\ pc = "payoff"
    /\ LET r == calculate_pnl(opt, path)
       IN  IF r.tag = "raise"
           THEN /\ pc' = "except"
                /\ err' = r.exc
                /\ UNCHANGED pnl_net
           ELSE /\ pc' = "pnl"
                /\ pnl_net' = r.value
                /\ UNCHANGED err
    /\ UNCHANGED <<args, opt, path, payoff_brut>>

Next == CallPayoff \/ CallCalculatePnl

Spec == Init /\ [][Next]_vars
(***************************** the properties *****************************)
Range(s) == {s[i] : i \in 1..Len(s)}
MaxOf(s) == CHOOSE x \in Range(s) : \A y \in Range(s) : y <= x
MinOf(s) == CHOOSE x \in Range(s) : \A y \in Range(s) : x <= y
SumOf(s) == LET RECURSIVE Upto(_)
                Upto(i) == IF i = 0 THEN 0 ELSE s[i] + Upto(i - 1)
            IN  Upto(Len(s))
Clamp(n) == IF n > 0 THEN n ELSE 0
Positive(s) == \A i \in 1..Len(s) : s[i] > 0
IsNum(v) == v.kind = "num"
Leq(v, w) == Sign(Sub(w, v)) >= 0

\* max(0, S - K) for a call, max(0, K - S) for a put, K an integer strike
Vanilla(S, strike, is_call) ==
    IntVal(IF is_call THEN Clamp(S - strike.num) ELSE Clamp(strike.num - S))

Returned == payoff_brut # Absent
Evaluated == pc # "try"
IsA(cls) == opt.cls = cls

\* C1: a knock-in barrier option's payoff plus the payoff of the knock-out option with the
\* same barrier, direction, strike and type is the vanilla terminal payoff, on every path.
C1_KnockInPlusKnockOutIsVanilla ==
    (IsA("BarrierOption") /\ Evaluated) =>
        LET twin == BarrierOption_payoff([opt EXCEPT !.is_knock_in = ~@], path)
        IN  /\ Returned
            /\ twin.tag = "return"
            /\ Add(payoff_brut, twin.value) = Vanilla(last(path), opt.K, opt.is_call)

C1_Witness ==
    /\ IsA("BarrierOption") /\ Returned
    /\ ~opt.is_knock_in
    /\ payoff_brut = Float0
    /\ BarrierOption_payoff([opt EXCEPT !.is_knock_in = TRUE], path).value.num > 0

\* C2: the barrier payoff, in each of the four knock-in/out x up/down combinations: touched
\* is max(path) >= barrier (up) or min(path) <= barrier (down), inclusive; active is touched
\* for knock-in and not touched for knock-out; active pays the vanilla terminal payoff and
\* inactive pays exactly 0; main's up-and-out call (K=105, barrier=114) pays 0.
C2_BarrierPayoff ==
    (IsA("BarrierOption") /\ Evaluated) =>
        LET touched == IF opt.is_up THEN MaxOf(path) >= opt.barrier
                       ELSE MinOf(path) <= opt.barrier
            active == (opt.is_knock_in <=> touched)
        IN  /\ Returned
            /\ payoff_brut = IF active THEN Vanilla(last(path), opt.K, opt.is_call)
                             ELSE Float0
            /\ (path = price_path /\ opt.K = IntVal(105) /\ opt.barrier = 114
                  /\ opt.is_up /\ ~opt.is_knock_in /\ opt.is_call)
               => payoff_brut = IntVal(0)

\* the extreme equals the barrier exactly and that alone knocks a valuable option out
C2_Witness ==
    /\ IsA("BarrierOption") /\ Returned
    /\ opt.is_up /\ ~opt.is_knock_in
    /\ MaxOf(path) = opt.barrier
    /\ Vanilla(last(path), opt.K, opt.is_call).num > 0
    /\ payoff_brut = Float0

\* C3: on a valid path (non-empty, all observations positive) the floating-strike lookback
\* payoff is >= 0, for the call and for the put, and it is the unclamped difference.
C3_FloatingLookbackNonNegative ==
    (IsA("LookBackOption") /\ opt.type_option = "Flottant" /\ Positive(path) /\ Evaluated) =>
        /\ Returned
        /\ IsNum(payoff_brut)
        /\ Sign(payoff_brut) >= 0
        /\ payoff_brut.den = 1
        /\ payoff_brut.num = IF opt.is_call THEN last(path) - MinOf(path)
                             ELSE MaxOf(path) - last(path)

C3_Witness ==
    /\ IsA("LookBackOption") /\ opt.type_option = "Flottant" /\ Positive(path) /\ Returned
    /\ ~opt.is_call
    /\ Sign(payoff_brut) > 0

\* C4: the fixed-strike lookback pays max(0, max(path) - K) for a call and
\* max(0, K - min(path)) for a put; on main's path with K=105 the call pays 10.
C4_FixedLookback ==
    (IsA("LookBackOption") /\ opt.type_option = "Fixe" /\ opt.K # None /\ Evaluated) =>
        /\ Returned
        /\ payoff_brut = IntVal(IF opt.is_call THEN Clamp(MaxOf(path) - opt.K.num)
                                ELSE Clamp(opt.K.num - MinOf(path)))
        /\ (path = price_path /\ opt.K = IntVal(105) /\ opt.is_call)
           => payoff_brut = IntVal(10)

C4_Witness ==
    /\ IsA("LookBackOption") /\ opt.type_option = "Fixe" /\ Returned
    /\ path = price_path /\ opt.is_call
    /\ payoff_brut = IntVal(10)

\* C5: the arithmetic Asian pays max(0, A - K) for a call and max(0, K - A) for a put, A the
\* sum of all observations of the path over its length; on main's path with K=105 the call
\* pays 3.3 (33/10).
C5_ArithmeticAsian ==
    (IsA("AsianOption") /\ opt.average_type = "arithmetic" /\ Evaluated) =>
        LET n == Len(path)
            d == IF opt.is_call THEN SumOf(path) - n * opt.K.num
                 ELSE n * opt.K.num - SumOf(path)
        IN  /\ Returned
            /\ payoff_brut = Rat(Clamp(d), n)
            /\ (path = price_path /\ opt.K = IntVal(105) /\ opt.is_call)
               => payoff_brut = Rat(33, 10)

C5_Witness ==
    /\ IsA("AsianOption") /\ opt.average_type = "arithmetic" /\ Returned
    /\ path = price_path
    /\ payoff_brut = Rat(33, 10)

\* C6: calculate_pnl(path) is payoff(path) minus the premium passed at construction (0 when
\* left out), for every variant; it fails only where payoff gave no number.
C6_NetResult ==
    LET premium == IF args.premium = Absent THEN IntVal(0) ELSE args.premium
    IN  /\ pc = "pnl" =>
              pnl_net = IF payoff_brut = NaN THEN NaN ELSE Sub(payoff_brut, premium)
        /\ (pc = "except" /\ Returned) => payoff_brut = None

C6_Witness ==
    /\ pc = "pnl"
    /\ IsA("BarrierOption")
    /\ args.premium # Absent
    /\ payoff_brut # NaN /\ Sign(payoff_brut) > 0
    /\ Leq(pnl_net, payoff_brut) /\ pnl_net # payoff_brut

\* C7: the payoff of a geometric Asian on a path with a non-positive observation fails with
\* a DomainError; it never returns a number.
C7_GeometricNonPositiveRaises ==
    (IsA("AsianOption") /\ opt.average_type = "geometric" /\ ~Positive(path) /\ Evaluated) =>
        /\ ~Returned
        /\ pc = "except"
        /\ err = "DomainError"

\* C8: on a path of positive observations with at least two distinct values the geometric
\* mean is <= the arithmetic mean; so the geometric call pays <= the arithmetic call and the
\* geometric put pays >= the arithmetic put, same path and strike.
C8_GeometricBelowArithmetic ==
    (IsA("AsianOption") /\ opt.average_type = "geometric" /\ Positive(path)
       /\ Cardinality(Range(path)) >= 2 /\ Evaluated) =>
        LET twin == [opt EXCEPT !.average_type = "arithmetic"]
            other == AsianOption_payoff(twin, path)
        IN  /\ Returned
            /\ Leq(moyenne(opt, path), moyenne(twin, path))
            /\ other.tag = "return"
            /\ IF opt.is_call THEN Leq(payoff_brut, other.value)
               ELSE Leq(other.value, payoff_brut)

\* both calls pay, and the geometric one strictly less
C8_Witness ==
    /\ IsA("AsianOption") /\ opt.average_type = "geometric" /\ Positive(path) /\ Returned
    /\ Cardinality(Range(path)) >= 2
    /\ opt.is_call
    /\ Sign(payoff_brut) > 0
    /\ ~Leq(AsianOption_payoff([opt EXCEPT !.average_type = "arithmetic"], path).value,
            payoff_brut)

\* C9: the floating-strike lookback never reads the strike: it pays path[last] - min(path)
\* (call) or max(path) - path[last] (put), the same for every strike, and evaluates without
\* error when the strike is None.
C9_FloatingIgnoresStrike ==
    (IsA("LookBackOption") /\ opt.type_option = "Flottant" /\ Evaluated) =>
        /\ Returned
        /\ payoff_brut = IntVal(IF opt.is_call THEN last(path) - MinOf(path)
                                ELSE MaxOf(path) - last(path))
        /\ \A k \in Strikes \cup {None} :
              LookBackOption_payoff([opt EXCEPT !.K = k], path) = Return(payoff_brut)

C9_Witness ==
    /\ IsA("LookBackOption") /\ opt.type_option = "Flottant" /\ Returned
    /\ opt.K = None
    /\ path = price_path
    /\ payoff_brut = IntVal(12)

\* C10: LookBackOption.payoff gives a number only when type_option is exactly 'Fixe' or
\* 'Flottant'; for any other value it raises nothing and returns None, on every path.
C10_UnknownTypeReturnsNone ==
    (IsA("LookBackOption") /\ Evaluated) =>
        IF opt.type_option \in {"Fixe", "Flottant"}
        THEN Returned => IsNum(payoff_brut)
        ELSE payoff_brut = None

C10_Witness ==
    /\ IsA("LookBackOption") /\ opt.type_option = "floating"
    /\ pc = "payoff"
    /\ payoff_brut = None
====
